---- MODULE Spec2Model ----
(***************************************************************************)
(* Model of the caching layer of wikimapa.                                 *)
(*                                                                         *)
(*   SmartCache          src/unnamed/part_000 (generic bounded TTL cache)  *)
(*   useWikipediaCache   src/hooks/use-wikipedia-cache.ts (geo cache kept  *)
(*                       in localStorage, matched by coverage)             *)
(*                                                                         *)
(* Time is Date.now() in abstract units.  A JavaScript Map is a sequence   *)
(* of records in insertion order; null is 0 for data, results and indices. *)
(***************************************************************************)
EXTENDS Integers, Sequences, FiniteSets, TLC

(* ---------------------------- bounds ---------------------------------- *)
MaxTime == 2
MaxCap == 2
MaxAccess == 2

Keys == {"", "a", "b"}
Data == {1, 2}
Times == 0..MaxTime
Ttls == {1}

(* geo cache of useWikipediaCache: sizes that bound the exploration *)
MaxStored == 2

CACHE_EXPIRY == 1000 * 60 * 60 * 24
MAX_CACHE_ENTRIES == 50

VARIABLES
    cache,            \* SmartCache.cache: Map<string, CacheEntry> in insertion order
    maxSize,          \* SmartCache.maxSize
    ttl,              \* SmartCache.ttl
    cleanupInterval,  \* SmartCache.cleanupInterval: timer id, 0 for null
    activeTimers,     \* interval timers registered with the runtime
    now,              \* Date.now()
    ret               \* the last step: the call's name, key and return value (set: its data)

cacheVars == <<cache, maxSize, ttl, cleanupInterval, activeTimers, now, ret>>

VARIABLES
    storage,          \* localStorage[CACHE_KEY] parsed: the list of CacheEntry (no item: empty)
    lsState,          \* window.localStorage: "ok", "absent" (undefined), "throws" (every
                      \* access throws), "badjson" (the item does not parse to an array)
    isClient,         \* useState(false), set by the mount effect
    clock,            \* Date.now() in the browser, milliseconds
    geoRet            \* the last step of the hook: its name, request, covering entry, result,
                      \* and for addToCache the number of entries cut off by the cap

geoVars == <<storage, lsState, isClient, clock, geoRet>>

VARIABLES
    articles,         \* useState([]): the displayed articles, by pageid
    loading,          \* useState(false)
    error,            \* useState(null): "" for null
    cacheStats,       \* useState({hits: 0, misses: 0, total: 0})
    pending,          \* calls of fetchArticles awaiting fetch(url): params, isClient
    rendered          \* the props of the latest render, <<>> before the first effect

hookVars == <<articles, loading, error, cacheStats, pending, rendered>>

VARIABLES
    fw,               \* one call of fetchWithRetry: where it stands, its maxRetries, the
                      \* loop variable, the requests issued and the outcome of each
    apiCache,         \* route.ts apiCache: Map<string, {data, timestamp}> in insertion order
    srvClock,         \* Date.now() on the server, milliseconds
    pd,               \* one call of fetchPageDetails: its batches, the state and the
                      \* result of each, the results pushed so far
    get,              \* one request in the GET handler: where it stands, its parameters
    apiRet            \* the last response of the handler, with what producing it did

srvVars == <<fw, apiCache, srvClock, pd, get, apiRet>>

VARIABLES
    keyRet            \* the last call of generateArticleCacheKey: its argument and its key

VARIABLES
    hook,             \* useDebounce(callback, options): <<>> before the hook is called
    timeoutRef,       \* timeoutRef.current: a timer id, 0 for null
    lastCallTimeRef,  \* lastCallTimeRef.current
    lastInvokeTimeRef,\* lastInvokeTimeRef.current
    timers,           \* the timeouts the runtime holds: id, due time, args of the closure
    dbNow,            \* Date.now() where the hook runs, milliseconds
    log,              \* the calls of the debounced function (the n-th passes n) and,
                      \* as 0, the calls of cancel
    invoked,          \* the arguments callback was invoked with, in order
    dbRet             \* the last step: its name, its args, the value it returned

dbVars == <<hook, timeoutRef, lastCallTimeRef, lastInvokeTimeRef, timers, dbNow, log,
            invoked, dbRet>>

VARIABLES
    abortControllerRef, \* abortControllerRef.current: a controller id, 0 for null
    aborted,            \* the controllers whose signal is aborted
    inflight,           \* calls of search awaiting searchFunction: args, own controller
    searchResults,      \* useState(null): <<>> for null
    searchLoading,      \* useState(false) of useDebouncedGeoSearch
    searchError         \* useState(null): "" for null

gsVars == <<abortControllerRef, aborted, inflight, searchResults,
           searchLoading, searchError>>

libVars == <<keyRet, dbVars, gsVars>>

\* what an operation of the SmartCache leaves alone
otherVars == <<geoVars, hookVars, srvVars, libVars>>

(* ------------------------- Map<string, _> ----------------------------- *)
\* Map.has / Map.get: position of key in the map, 0 when absent
IndexOf(c, key) ==
    IF \E i \in 1..Len(c) : c[i].key = key
    THEN CHOOSE i \in 1..Len(c) : c[i].key = key
    ELSE 0

MapHas(c, key) == IndexOf(c, key) # 0

\* Map.delete
MapDelete(c, key) == SelectSeq(c, LAMBDA e : e.key # key)

\* Map.set: an existing key keeps its position, a new key goes last
MapSet(c, e) ==
    IF MapHas(c, e.key)
    THEN [c EXCEPT ![IndexOf(c, e.key)] = e]
    ELSE Append(c, e)

MapKeys(c) == {c[i].key : i \in 1..Len(c)}

Entry(c, key) == c[IndexOf(c, key)]

(* --------------------------- SmartCache ------------------------------- *)
\* the for-loop of evictLRU from position i on: index of oldestKey, 0 for null
RECURSIVE EvictScan(_, _, _, _)
EvictScan(c, i, oldestIdx, oldestTime) ==
    IF i > Len(c) THEN oldestIdx
    ELSE IF c[i].lastAccessed < oldestTime
         THEN EvictScan(c, i + 1, i, c[i].lastAccessed)
         ELSE EvictScan(c, i + 1, oldestIdx, oldestTime)

\* if (oldestKey): null and the empty string are both falsy
Truthy(c, idx) == idx # 0 /\ c[idx].key # ""

evictLRU(c, t) ==
    LET oldestIdx == EvictScan(c, 1, 0, t)
    IN  IF Truthy(c, oldestIdx) THEN MapDelete(c, c[oldestIdx].key) ELSE c

NewEntry_zero(key, data, t) ==
    [key |-> key, data |-> data, timestamp |-> t, accessCount |-> 0, lastAccessed |-> t]

NewEntry(key, data, t) ==
    [key |-> key, data |-> data, timestamp |-> t, accessCount |-> 1, lastAccessed |-> t]

SetResult(c, key, data, t) ==
    LET c1 == IF Len(c) >= maxSize /\ ~MapHas(c, key) THEN evictLRU(c, t) ELSE c
    IN  MapSet(c1, NewEntry(key, data, t))

Expired_sliding(e, t) == t - e.lastAccessed > ttl

\* now - entry.timestamp > this.ttl
Expired(e, t) == t - e.timestamp > ttl

\* the branch "if (now - entry.timestamp > this.ttl)" of get and has is taken
FoundExpired(c, key, t) == MapHas(c, key) /\ Expired(Entry(c, key), t)

Set(key, data) ==
    /\ cache' = SetResult(cache, key, data, now)
    /\ ret' = [op |-> "set", key |-> key, val |-> data, expired |-> FALSE]
    /\ UNCHANGED <<maxSize, ttl, cleanupInterval, activeTimers, now, otherVars>>

GetResult_refresh(c, key, t) ==
    IF ~MapHas(c, key) THEN c
    ELSE IF Expired(Entry(c, key), t) THEN MapDelete(c, key)
    ELSE [c EXCEPT ![IndexOf(c, key)] =
            [@ EXCEPT !.accessCount = @ + 1, !.lastAccessed = t, !.timestamp = t]]

GetResult(c, key, t) ==
    IF ~MapHas(c, key) THEN c
    ELSE IF Expired(Entry(c, key), t) THEN MapDelete(c, key)
    ELSE [c EXCEPT ![IndexOf(c, key)] =
            [@ EXCEPT !.accessCount = @ + 1, !.lastAccessed = t]]

GetValue(c, key, t) ==
    IF ~MapHas(c, key) THEN 0
    ELSE IF Expired(Entry(c, key), t) THEN 0
    ELSE Entry(c, key).data

Get(key) ==
    /\ MapHas(cache, key) => Entry(cache, key).accessCount < MaxAccess
    /\ cache' = GetResult(cache, key, now)
    /\ ret' = [op |-> "get", key |-> key, val |-> GetValue(cache, key, now),
               expired |-> FoundExpired(cache, key, now)]
    /\ UNCHANGED <<maxSize, ttl, cleanupInterval, activeTimers, now, otherVars>>

HasResult(c, key, t) ==
    IF MapHas(c, key) /\ Expired(Entry(c, key), t) THEN MapDelete(c, key) ELSE c

HasValue(c, key, t) ==
    IF MapHas(c, key) /\ ~Expired(Entry(c, key), t) THEN 1 ELSE 0

Has(key) ==
    /\ cache' = HasResult(cache, key, now)
    /\ ret' = [op |-> "has", key |-> key, val |-> HasValue(cache, key, now),
               expired |-> FoundExpired(cache, key, now)]
    /\ UNCHANGED <<maxSize, ttl, cleanupInterval, activeTimers, now, otherVars>>

Delete(key) ==
    /\ cache' = MapDelete(cache, key)
    /\ ret' = [op |-> "delete", key |-> key, val |-> IF MapHas(cache, key) THEN 1 ELSE 0,
               expired |-> FALSE]
    /\ UNCHANGED <<maxSize, ttl, cleanupInterval, activeTimers, now, otherVars>>

Clear ==
    /\ cache' = <<>>
    /\ ret' = [op |-> "clear", key |-> "", val |-> 0, expired |-> FALSE]
    /\ UNCHANGED <<maxSize, ttl, cleanupInterval, activeTimers, now, otherVars>>

cleanup_idle(c, t) == SelectSeq(c, LAMBDA e : ~(t - e.lastAccessed > ttl))

cleanup(c, t) == SelectSeq(c, LAMBDA e : ~Expired(e, t))

\* one tick of the setInterval callback registered by startCleanup
SweepTick ==
    /\ activeTimers # {}
    /\ cache' = cleanup(cache, now)
    /\ ret' = [op |-> "cleanup", key |-> "", val |-> Len(cache) - Len(cleanup(cache, now)),
               expired |-> FALSE]
    /\ UNCHANGED <<maxSize, ttl, cleanupInterval, activeTimers, now, otherVars>>

Destroy_leak ==
    /\ cleanupInterval' = 0
    /\ cache' = <<>>
    /\ ret' = [op |-> "destroy", key |-> "", val |-> 0, expired |-> FALSE]
    /\ UNCHANGED <<maxSize, ttl, now, activeTimers, otherVars>>

Destroy ==
    /\ activeTimers' = IF cleanupInterval # 0 THEN activeTimers \ {cleanupInterval}
                       ELSE activeTimers
    /\ cleanupInterval' = 0
    /\ cache' = <<>>
    /\ ret' = [op |-> "destroy", key |-> "", val |-> 0, expired |-> FALSE]
    /\ UNCHANGED <<maxSize, ttl, now, otherVars>>

\* Date.now() stands still between calls or advances
DateNow ==
    /\ now < MaxTime
    /\ now' = now + 1
    /\ ret' = [op |-> "now", key |-> "", val |-> 0, expired |-> FALSE]
    /\ UNCHANGED <<cache, maxSize, ttl, cleanupInterval, activeTimers, otherVars>>

\* new SmartCache(maxSize, ttlMs): empty map, startCleanup() has registered one timer
InitCache ==
    /\ cache = <<>>
    /\ maxSize \in 1..MaxCap
    /\ ttl \in Ttls
    /\ cleanupInterval = 1
    /\ activeTimers = {1}
    /\ now = 0
    /\ ret = [op |-> "new", key |-> "", val |-> 0, expired |-> FALSE]

(* ------------------- cache key generation ------------------------------ *)
(* A string of digits and commas is a sequence of its characters: a digit  *)
(* is its value and the comma is Comma.                                    *)
MaxIds == 3
IdPool == {1, 2, 9, 10, 21}
Comma == -1

RECURSIVE SeqsUpTo(_, _)
SeqsUpTo(S, n) ==
    IF n = 0 THEN {<<>>}
    ELSE LET shorter == SeqsUpTo(S, n - 1)
         IN  shorter \cup {Append(q, x) : q \in shorter, x \in S}

IdLists == SeqsUpTo(IdPool, MaxIds)

\* String(n) of a non-negative integer
RECURSIVE Digits(_)
Digits(n) == IF n < 10 THEN <<n>> ELSE Digits(n \div 10) \o <<n % 10>>

\* a < b as strings: by code unit, a proper prefix first
RECURSIVE StrLess(_, _)
StrLess(a, b) ==
    IF b = <<>> THEN FALSE
    ELSE IF a = <<>> THEN TRUE
    ELSE IF Head(a) # Head(b) THEN Head(a) < Head(b)
    ELSE StrLess(Tail(a), Tail(b))

\* Array.prototype.sort() without a comparator: elements compared as strings
RECURSIVE InsertLex(_, _)
InsertLex(sorted, x) ==
    IF sorted = <<>> THEN <<x>>
    ELSE IF StrLess(Digits(x), Digits(Head(sorted)))
         THEN <<x>> \o sorted
         ELSE <<Head(sorted)>> \o InsertLex(Tail(sorted), x)

RECURSIVE SortDefault(_)
SortDefault(ids) ==
    IF ids = <<>> THEN <<>>
    ELSE InsertLex(SortDefault(SubSeq(ids, 1, Len(ids) - 1)), ids[Len(ids)])

\* ascending numeric order: sort((a, b) => a - b), and the order in which
\* Object.values lists integer keys
RECURSIVE InsertNum(_, _)
InsertNum(sorted, x) ==
    IF sorted = <<>> THEN <<x>>
    ELSE IF x < Head(sorted) THEN <<x>> \o sorted
    ELSE <<Head(sorted)>> \o InsertNum(Tail(sorted), x)

RECURSIVE SortNum(_)
SortNum(ids) ==
    IF ids = <<>> THEN <<>>
    ELSE InsertNum(SortNum(SubSeq(ids, 1, Len(ids) - 1)), ids[Len(ids)])

\* Array.prototype.join(',')
RECURSIVE Join(_)
Join(ids) ==
    IF ids = <<>> THEN <<>>
    ELSE IF Len(ids) = 1 THEN Digits(ids[1])
    ELSE Digits(ids[1]) \o <<Comma>> \o Join(Tail(ids))

\* `articles:${pageIds.sort().join(',')}`
generateArticleCacheKey(pageIds) ==
    [prefix |-> "articles:", body |-> Join(SortDefault(pageIds))]

GenerateArticleCacheKey(pageIds) ==
    /\ keyRet' = [op |-> "key", ids |-> pageIds, key |-> generateArticleCacheKey(pageIds)]
    /\ UNCHANGED <<cacheVars, geoVars, hookVars, srvVars, dbVars, gsVars>>

\* the list without its i-th element
RemoveAt(q, i) == SubSeq(q, 1, i - 1) \o SubSeq(q, i + 1, Len(q))

(* ----------------------------- useDebounce ----------------------------- *)
(* Times are milliseconds on a clock that starts at 1: Date.now() is never *)
(* 0, the value the hook keeps in lastCallTimeRef for "no call yet".       *)
MaxDelay == 3
MaxDbTime == 7
MaxCalls == 4

\* maxWait left out of the options
NoMaxWait == -1

Options(delay, leading, trailing, maxWait) ==
    [delay |-> delay, leading |-> leading, trailing |-> trailing, maxWait |-> maxWait]

\* the refs and the runtime's timers, and inv: the args of an invocation of callback
Refs ==
    [timeoutRef |-> timeoutRef, timers |-> timers, lastCall |-> lastCallTimeRef,
     lastInvoke |-> lastInvokeTimeRef, inv |-> <<>>]

shouldInvoke(s, time, o) ==
    \/ s.lastCall = 0
    \/ time - s.lastCall >= o.delay
    \/ time - s.lastCall < 0
    \/ (o.maxWait # NoMaxWait /\ time - s.lastInvoke >= o.maxWait)

\* timeoutRef.current = setTimeout(() => timerExpired(...args), ms)
SetTimeout(s, args, ms, t) ==
    LET used == {tm.id : tm \in s.timers} \cup {s.timeoutRef}
        id == CHOOSE n \in 1..(Cardinality(used) + 1) : n \notin used
    IN  [s EXCEPT !.timers = @ \cup {[id |-> id, due |-> t + ms, args |-> args]},
                  !.timeoutRef = id]

invoke(s, args, t) == [s EXCEPT !.lastInvoke = t, !.inv = <<args>>]

leadingEdge(s, args, t, o) ==
    LET armed == SetTimeout([s EXCEPT !.lastInvoke = s.lastCall], args, o.delay, t)
    IN  IF o.leading THEN invoke(armed, args, t) ELSE armed

trailingEdge(s, args, t, o) ==
    LET s1 == [s EXCEPT !.timeoutRef = 0]
    IN  IF o.trailing /\ s1.lastCall # s1.lastInvoke
        THEN invoke(s1, args, t)
        ELSE [s1 EXCEPT !.lastCall = 0, !.lastInvoke = 0]

timerExpired(s, args, t, o) ==
    IF shouldInvoke(s, t, o) THEN trailingEdge(s, args, t, o)
    ELSE IF o.maxWait # NoMaxWait /\ t - s.lastInvoke >= o.maxWait
         THEN trailingEdge(s, args, t, o)
         ELSE SetTimeout(s, args, o.delay - (t - s.lastCall), t)

debouncedCallback(s, args, t, o) ==
    LET isInvoking == shouldInvoke(s, t, o)
        s1 == [s EXCEPT !.lastCall = t]
    IN  IF isInvoking /\ s1.timeoutRef = 0 THEN leadingEdge(s1, args, t, o)
        ELSE IF isInvoking /\ o.maxWait # NoMaxWait THEN trailingEdge(s1, args, t, o)
        ELSE IF s1.timeoutRef = 0 THEN SetTimeout(s1, args, o.delay, t)
        ELSE s1

\* cancel: clearTimeout(timeoutRef.current); maxTimeoutRef is never set
cancel(s) ==
    [s EXCEPT !.timers = {tm \in @ : tm.id # s.timeoutRef}, !.timeoutRef = 0]

(* ------------------------ useDebouncedGeoSearch ------------------------ *)
\* search up to its await: abort the controller in the ref, put a new one
\* there, setLoading(true), setError(null), call searchFunction
SearchStart(args) ==
    LET NewController == abortControllerRef + 1
    IN  /\ aborted' = IF abortControllerRef # 0 THEN aborted \cup {abortControllerRef}
                      ELSE aborted
        /\ abortControllerRef' = NewController
        /\ inflight' = Append(inflight, [args |-> args, controller |-> NewController])
        /\ searchLoading' = TRUE
        /\ searchError' = ""
        /\ searchResults' = searchResults

\* the refs after a step, and callback run when the step invoked it
Commit(s) ==
    /\ timeoutRef' = s.timeoutRef
    /\ timers' = s.timers
    /\ lastCallTimeRef' = s.lastCall
    /\ lastInvokeTimeRef' = s.lastInvoke
    /\ invoked' = invoked \o s.inv
    /\ IF s.inv # <<>> /\ hook[1].callback = "search"
       THEN SearchStart(s.inv[1])
       ELSE UNCHANGED gsVars

\* the component calls useDebounce(callback, options)
UseDebounce(cb, o) ==
    /\ hook = <<>>
    /\ hook' = <<[callback |-> cb, options |-> o]>>
    /\ dbRet' = [op |-> "mount", args |-> 0, sync |-> FALSE]
    /\ UNCHANGED <<timeoutRef, lastCallTimeRef, lastInvokeTimeRef, timers, dbNow, log,
                   invoked, gsVars, keyRet, cacheVars, geoVars, hookVars, srvVars>>

\* a call of the debounced function; the n-th call passes n
Call ==
    /\ hook # <<>>
    /\ Len(log) < MaxCalls
    /\ LET args == Len(SelectSeq(log, LAMBDA e : e # 0)) + 1
           s == debouncedCallback(Refs, args, dbNow, hook[1].options)
       IN  /\ Commit(s)
           /\ log' = Append(log, args)
           /\ dbRet' = [op |-> "call", args |-> args, sync |-> s.inv # <<>>]
    /\ UNCHANGED <<hook, dbNow, keyRet, cacheVars, geoVars, hookVars, srvVars>>

\* the runtime runs the callback of a timeout that is due
Timer(tm) ==
    /\ tm \in timers
    /\ dbNow >= tm.due
    /\ LET s == timerExpired([Refs EXCEPT !.timers = @ \ {tm}], tm.args, dbNow,
                             hook[1].options)
       IN  /\ Commit(s)
           /\ dbRet' = [op |-> "timer", args |-> tm.args, sync |-> FALSE]
    /\ UNCHANGED <<hook, dbNow, log, keyRet, cacheVars, geoVars, hookVars, srvVars>>

\* the cancel function useDebounce returns
Cancel ==
    /\ hook # <<>>
    /\ Len(log) < MaxCalls
    /\ Commit(cancel(Refs))
    /\ log' = Append(log, 0)
    /\ dbRet' = [op |-> "cancel", args |-> 0, sync |-> FALSE]
    /\ UNCHANGED <<hook, dbNow, keyRet, cacheVars, geoVars, hookVars, srvVars>>

\* a millisecond passes; a timeout that is due runs first
DbTick ==
    /\ dbNow < MaxDbTime
    /\ \A tm \in timers : tm.due > dbNow
    /\ dbNow' = dbNow + 1
    /\ dbRet' = [op |-> "tick", args |-> 0, sync |-> FALSE]
    /\ UNCHANGED <<hook, timeoutRef, lastCallTimeRef, lastInvokeTimeRef, timers, log,
                   invoked, gsVars, keyRet, cacheVars, geoVars, hookVars, srvVars>>

\* searchFunction settles for the i-th search in flight: the rest of search
SearchSettle(i, ok) ==
    /\ i \in 1..Len(inflight)
    /\ inflight' = RemoveAt(inflight, i)
    /\ IF abortControllerRef \in aborted
       THEN UNCHANGED <<searchResults, searchError, searchLoading>>
       ELSE /\ searchResults' = IF ok THEN <<inflight[i].args>> ELSE <<>>
            /\ searchError' = IF ok THEN searchError ELSE "Search failed"
            /\ searchLoading' = FALSE
    /\ dbRet' = [op |-> "settle", args |-> inflight[i].args, sync |-> FALSE]
    /\ UNCHANGED <<abortControllerRef, aborted, hook, timeoutRef, lastCallTimeRef,
                   lastInvokeTimeRef, timers, dbNow, log, invoked, keyRet, cacheVars,
                   geoVars, hookVars, srvVars>>

\* the cancel useDebouncedGeoSearch returns: abort the controller, setLoading(false)
SearchCancel ==
    /\ hook # <<>>
    /\ aborted' = IF abortControllerRef # 0 THEN aborted \cup {abortControllerRef}
                  ELSE aborted
    /\ searchLoading' = FALSE
    /\ dbRet' = [op |-> "abort", args |-> 0, sync |-> FALSE]
    /\ UNCHANGED <<abortControllerRef, inflight, searchResults, searchError, hook, timeoutRef,
                   lastCallTimeRef, lastInvokeTimeRef, timers, dbNow, log, invoked, keyRet,
                   cacheVars, geoVars, hookVars, srvVars>>

InitLib ==
    /\ keyRet = [op |-> "none", ids |-> <<>>, key |-> [prefix |-> "", body |-> <<>>]]
    /\ hook = <<>>
    /\ timeoutRef = 0
    /\ lastCallTimeRef = 0
    /\ lastInvokeTimeRef = 0
    /\ timers = {}
    /\ dbNow = 1
    /\ log = <<>>
    /\ invoked = <<>>
    /\ dbRet = [op |-> "none", args |-> 0, sync |-> FALSE]
    /\ abortControllerRef = 0
    /\ aborted = {}
    /\ inflight = <<>>
    /\ searchResults = <<>>
    /\ searchLoading = FALSE
    /\ searchError = ""

(* ------------------- useWikipediaCache: geo cache --------------------- *)
(* Coordinates are integers in units of 0.01 degree.  A missing optional   *)
(* field is "" for query, 0 for year and NoCoords for coordinates.         *)
Point(lat, lon) == [lat |-> lat, lon |-> lon]
NoCoords == Point(99999, 99999)

P0 == Point(4000, -7400)
P1 == Point(4002, -7402)
P2 == Point(4010, -7400)

RequestPoints == {P0, P1, P2}
Radii == {2500, 10000}

\* articles as the API returns them, and the lists it answers with
Article(id, coords) == [pageid |-> id, coordinates |-> coords]
Responses ==
    { << Article(1, P0), Article(2, P1), Article(3, NoCoords) >>,
      << Article(3, NoCoords), Article(1, P0) >> }

Params(p, r, q, y) == [lat |-> p.lat, lon |-> p.lon, radius |-> r, query |-> q, year |-> y]

\* the searches whose results get stored, and the searches looked up
StoreParams ==
    { Params(P0, 10000, "", 0), Params(P0, 10000, "rome", 1900),
      Params(P1, 10000, "", 0), Params(P1, 2500, "", 0) }
Requests ==
    {Params(p, r, qy[1], qy[2]) : p \in RequestPoints, r \in Radii,
        qy \in {<<"", 0>>, <<"rome", 1900>>, <<"paris", 1900>>, <<"rome", 2000>>}}

Abs(x) == IF x < 0 THEN 0 - x ELSE x

\* Math.sqrt rounded down: the largest r in lo..hi with r * r <= n
RECURSIVE SqrtIter(_, _, _)
SqrtIter(n, lo, hi) ==
    IF lo >= hi THEN lo
    ELSE LET mid == (lo + hi + 1) \div 2
         IN  IF mid * mid <= n THEN SqrtIter(n, mid, hi) ELSE SqrtIter(n, lo, mid - 1)

\* metres per 0.01 degree of latitude (R * PI / 180 / 100) and of longitude
\* at 40 degrees north (cos = 0.766)
MetersPerLat == (6371 * 31416) \div 180000
MetersPerLon == (MetersPerLat * 766) \div 1000

\* haversine distance in metres; for the neighbouring points of the model the
\* great circle is the hypotenuse of the north and east offsets
calculateDistance(lat1, lon1, lat2, lon2) ==
    LET dy == Abs(lat2 - lat1) * MetersPerLat
        dx == Abs(lon2 - lon1) * MetersPerLon
    IN  SqrtIter(dy * dy + dx * dx, IF dy > dx THEN dy ELSE dx, dy + dx)

\* Array.prototype.sort((a, b) => b.timestamp - a.timestamp): stable, descending
RECURSIVE InsertDesc(_, _)
InsertDesc(sorted, e) ==
    IF sorted = <<>> THEN <<e>>
    ELSE IF Head(sorted).timestamp >= e.timestamp
         THEN <<Head(sorted)>> \o InsertDesc(Tail(sorted), e)
         ELSE <<e>> \o sorted

RECURSIVE SortDesc(_)
SortDesc(entries) ==
    IF entries = <<>> THEN <<>>
    ELSE InsertDesc(SortDesc(SubSeq(entries, 1, Len(entries) - 1)), entries[Len(entries)])

Slice_all(seq, n) == seq

\* Array.prototype.slice(0, n)
Slice(seq, n) == SubSeq(seq, 1, IF Len(seq) < n THEN Len(seq) ELSE n)

\* saveCache: the value of localStorage afterwards
saveCache(st, isC, entries) ==
    IF ~isC THEN st ELSE Slice(SortDesc(entries), MAX_CACHE_ENTRIES)

ValidEntries(st, t) == SelectSeq(st, LAMBDA e : t - e.timestamp < CACHE_EXPIRY)

\* loadCache: the list it returns
loadCache(st, isC, t) == IF ~isC THEN <<>> ELSE ValidEntries(st, t)

\* loadCache: the value of localStorage afterwards
loadCacheStorage(st, isC, t) ==
    IF isC /\ Len(ValidEntries(st, t)) # Len(st)
    THEN saveCache(st, isC, ValidEntries(st, t))
    ELSE st

isWithinCachedArea_noSub(params, cachedParams) ==
    /\ cachedParams.radius >= params.radius
    /\ calculateDistance(params.lat, params.lon, cachedParams.lat, cachedParams.lon)
          <= cachedParams.radius

isWithinCachedArea(params, cachedParams) ==
    /\ cachedParams.radius >= params.radius
    /\ calculateDistance(params.lat, params.lon, cachedParams.lat, cachedParams.lon)
          <= cachedParams.radius - params.radius

queryMatches(params, cachedParams) ==
    params.query = "" \/ cachedParams.query = "" \/ cachedParams.query = params.query

yearMatches(params, cachedParams) ==
    params.year = 0 \/ cachedParams.year = 0 \/ cachedParams.year = params.year

EntryCovers(params, entry) ==
    /\ isWithinCachedArea(params, entry.params)
    /\ queryMatches(params, entry.params)
    /\ yearMatches(params, entry.params)

ArticleKept_fromEntry(params, article) ==
    \/ article.coordinates = NoCoords
    \/ calculateDistance(article.center.lat, article.center.lon,
                         article.coordinates.lat, article.coordinates.lon) <= params.radius

\* the filter callback of findCachedArticles
ArticleKept(params, article) ==
    \/ article.coordinates = NoCoords
    \/ calculateDistance(params.lat, params.lon,
                         article.coordinates.lat, article.coordinates.lon) <= params.radius

\* the loop of findCachedArticles: position of the first covering entry, 0 for none
FirstCovering(entries, params) ==
    IF \E i \in 1..Len(entries) : EntryCovers(params, entries[i])
    THEN CHOOSE i \in 1..Len(entries) :
            /\ EntryCovers(params, entries[i])
            /\ \A j \in 1..(i - 1) : ~EntryCovers(params, entries[j])
    ELSE 0

\* the checks of loadCache pass, getItem answers and JSON.parse gives an array
CanRead == isClient /\ lsState = "ok"

\* the checks of saveCache pass and setItem stores the value
CanWrite == isClient /\ lsState \in {"ok", "badjson"}

\* an entry whose params field is missing: destructuring gives undefined
NoParams == Params(NoCoords, -1, "", 0)

\* findCachedArticles reads cachedParams.lat of an entry without params before
\* any earlier entry has returned: TypeError
FindThrows(entries, params) ==
    \E i \in 1..Len(entries) :
        /\ entries[i].params = NoParams
        /\ \A j \in 1..(i - 1) : ~EntryCovers(params, entries[j])

\* findCachedArticles: the covering entry, the list returned, whether it threw
FindOutcome(params) ==
    LET entries == loadCache(storage, CanRead, clock)
        thr == FindThrows(entries, params)
        i == IF thr THEN 0 ELSE FirstCovering(entries, params)
    IN  [hit |-> IF i = 0 THEN <<>> ELSE <<entries[i]>>,
         articles |-> IF i = 0 THEN <<>>
                      ELSE SelectSeq(entries[i].articles, LAMBDA a : ArticleKept(params, a)),
         threw |-> thr]

FindCachedArticles(params) ==
    LET out == FindOutcome(params)
    IN  /\ storage' = loadCacheStorage(storage, CanRead, clock)
        /\ geoRet' = [op |-> "find", req |-> <<params>>, hit |-> out.hit,
                      articles |-> out.articles, dropped |-> 0, threw |-> out.threw]
        /\ UNCHANGED <<lsState, isClient, clock, hookVars, cacheVars, srvVars, libVars>>

\* articlesWithCoords; lacked records that the API sent the article without coordinates
StoredArticle(article, params, t) ==
    [pageid |-> article.pageid,
     coordinates |-> IF article.coordinates = NoCoords
                     THEN Point(params.lat, params.lon) ELSE article.coordinates,
     timestamp |-> t,
     radius |-> params.radius,
     center |-> Point(params.lat, params.lon),
     lacked |-> article.coordinates = NoCoords]

\* the storage checks as a callback sees them: loadCache and saveCache close
\* over the isClient of the render that created them
ReadAs(client) == client /\ lsState = "ok"
WriteAs(client) == client /\ lsState \in {"ok", "badjson"}

AddStorage_stale(arts, params, client) ==
    LET newEntry == [articles |-> [i \in 1..Len(arts) |-> StoredArticle(arts[i], params, clock)],
                     timestamp |-> clock,
                     params |-> params]
    IN  saveCache(storage, WriteAs(client), <<newEntry>>)

\* addToCache: the value of localStorage afterwards
AddStorage(arts, params, client) ==
    LET entries == loadCache(storage, ReadAs(client), clock)
        st1 == loadCacheStorage(storage, ReadAs(client), clock)
        newEntry == [articles |-> [i \in 1..Len(arts) |-> StoredArticle(arts[i], params, clock)],
                     timestamp |-> clock,
                     params |-> params]
    IN  saveCache(st1, WriteAs(client), <<newEntry>> \o entries)

\* addToCache: entries cut off by the cap
AddDropped(params) ==
    LET entries == loadCache(storage, CanRead, clock)
    IN  IF isClient /\ Len(entries) + 1 > MAX_CACHE_ENTRIES
        THEN Len(entries) + 1 - MAX_CACHE_ENTRIES ELSE 0

AddToCache(arts, params) ==
    /\ storage' = AddStorage(arts, params, isClient)
    /\ lsState' = IF CanWrite THEN "ok" ELSE lsState
    /\ geoRet' = [op |-> "add", req |-> <<params>>, hit |-> <<>>, articles |-> <<>>,
                  dropped |-> AddDropped(params), threw |-> FALSE]
    /\ UNCHANGED <<isClient, clock, hookVars, cacheVars, srvVars, libVars>>

\* clearCache: no try around window.localStorage and removeItem
ClearCache ==
    /\ storage' = IF isClient /\ lsState \in {"ok", "badjson"} THEN <<>> ELSE storage
    /\ lsState' = IF isClient /\ lsState = "badjson" THEN "ok" ELSE lsState
    /\ cacheStats' = IF isClient /\ lsState \in {"ok", "badjson"}
                     THEN [hits |-> 0, misses |-> 0, total |-> 0] ELSE cacheStats
    /\ geoRet' = [op |-> "clear", req |-> <<>>, hit |-> <<>>, articles |-> <<>>,
                  dropped |-> 0, threw |-> isClient /\ lsState = "throws"]
    /\ UNCHANGED <<isClient, clock, articles, loading, error, pending, rendered, cacheVars,
                   srvVars, libVars>>

\* useEffect(() => setIsClient(true), [])
Mount ==
    /\ ~isClient
    /\ isClient' = TRUE
    /\ geoRet' = [op |-> "mount", req |-> <<>>, hit |-> <<>>, articles |-> <<>>,
                  dropped |-> 0, threw |-> FALSE]
    /\ UNCHANGED <<storage, clock, lsState, hookVars, cacheVars, srvVars, libVars>>

\* Date.now() in the browser moves on to t
GeoTick(t) ==
    /\ t > clock
    /\ clock' = t
    /\ geoRet' = [op |-> "tick", req |-> <<>>, hit |-> <<>>, articles |-> <<>>,
                  dropped |-> 0, threw |-> FALSE]
    /\ UNCHANGED <<storage, isClient, lsState, hookVars, cacheVars, srvVars, libVars>>

\* the props of the hook; a number left out is Undefined
Undefined == NoCoords.lat
Props(p, r, q, y, en) ==
    [lat |-> p.lat, lon |-> p.lon, radius |-> r, query |-> q, year |-> y, enabled |-> en]

\* !lat, !lon
NoNumber(x) == x = 0 \/ x = Undefined

\* !enabled || (!query && (!lat || !lon))
Rejected(props) ==
    ~props.enabled \/ (props.query = "" /\ (NoNumber(props.lat) \/ NoNumber(props.lon)))

PageIds(arts) == [i \in 1..Len(arts) |-> arts[i].pageid]

\* fetchArticles up to its first await: the early return, the cache lookup, and
\* on a miss the request to /api/wikipedia
FetchStart(props) ==
    LET params == Params(Point(props.lat, props.lon), props.radius, props.query, props.year)
        out == FindOutcome(params)
    IN  /\ rendered' = <<props>>
        /\ IF Rejected(props)
            THEN /\ articles' = <<>>
                 /\ geoRet' = [op |-> "reject", req |-> <<>>, hit |-> <<>>, articles |-> <<>>,
                               dropped |-> 0, threw |-> FALSE]
                 /\ UNCHANGED <<storage, lsState, isClient, clock, loading, error, cacheStats,
                                pending, cacheVars, srvVars, libVars>>
            ELSE /\ storage' = loadCacheStorage(storage, CanRead, clock)
                 /\ geoRet' = [op |-> "fetch", req |-> <<params>>, hit |-> out.hit,
                               articles |-> out.articles, dropped |-> 0, threw |-> out.threw]
                 /\ articles' = IF ~out.threw /\ out.hit # <<>>
                                THEN PageIds(out.articles) ELSE articles
                 /\ cacheStats' =
                       IF out.threw THEN cacheStats
                       ELSE IF out.hit # <<>>
                            THEN [cacheStats EXCEPT !.hits = @ + 1, !.total = @ + 1]
                            ELSE [cacheStats EXCEPT !.misses = @ + 1, !.total = @ + 1]
                 /\ loading' = IF ~out.threw /\ out.hit = <<>> THEN TRUE ELSE loading
                 /\ error' = IF ~out.threw /\ out.hit = <<>> THEN "" ELSE error
                 /\ pending' = IF ~out.threw /\ out.hit = <<>>
                               THEN Append(pending, [params |-> params, isClient |-> isClient])
                               ELSE pending
                 /\ UNCHANGED <<lsState, isClient, clock, cacheVars, srvVars, libVars>>

ErrorAfter_silent(ok, err) == err

\* setError in the catch: err.message, a non-empty string; untouched on success
ErrorAfter(ok, err) == IF ok THEN err ELSE "Failed to fetch"

\* fetchArticles after the await, for the i-th call in flight: data.success
\* with its articles, or the catch; addToCache is the one of the call's render
FetchDone(i, ok, arts) ==
    /\ i \in 1..Len(pending)
    /\ pending' = RemoveAt(pending, i)
    /\ loading' = FALSE
    /\ IF ok
       THEN /\ storage' = AddStorage(arts, pending[i].params, pending[i].isClient)
            /\ lsState' = IF WriteAs(pending[i].isClient) THEN "ok" ELSE lsState
            /\ articles' = PageIds(arts)
       ELSE /\ articles' = <<>>
            /\ UNCHANGED <<storage, lsState>>
    /\ error' = ErrorAfter(ok, error)
    /\ geoRet' = [op |-> IF ok THEN "response" ELSE "failed", req |-> <<pending[i].params>>,
                  hit |-> <<>>, articles |-> <<>>, dropped |-> 0, threw |-> FALSE]
    /\ UNCHANGED <<isClient, clock, cacheStats, rendered, cacheVars, srvVars, libVars>>

\* window.localStorage disappears or starts to throw (private mode, blocked storage)
StorageFails(m) ==
    /\ lsState = "ok"
    /\ lsState' = m
    /\ geoRet' = [op |-> "env", req |-> <<>>, hit |-> <<>>, articles |-> <<>>,
                  dropped |-> 0, threw |-> FALSE]
    /\ UNCHANGED <<storage, isClient, clock, hookVars, cacheVars, srvVars, libVars>>

\* the stored item is overwritten with text that is not a JSON array
CorruptValue ==
    /\ lsState = "ok"
    /\ lsState' = "badjson"
    /\ storage' = <<>>
    /\ geoRet' = [op |-> "env", req |-> <<>>, hit |-> <<>>, articles |-> <<>>,
                  dropped |-> 0, threw |-> FALSE]
    /\ UNCHANGED <<isClient, clock, hookVars, cacheVars, srvVars, libVars>>

\* the stored array gets an element that is not a CacheEntry: no params
CorruptEntry ==
    /\ lsState = "ok"
    /\ \A i \in 1..Len(storage) : storage[i].params # NoParams
    /\ storage' = <<[articles |-> <<>>, timestamp |-> clock, params |-> NoParams]>> \o storage
    /\ geoRet' = [op |-> "env", req |-> <<>>, hit |-> <<>>, articles |-> <<>>,
                  dropped |-> 0, threw |-> FALSE]
    /\ UNCHANGED <<lsState, isClient, clock, hookVars, cacheVars, srvVars, libVars>>

\* first render of the hook: nothing stored by this session, isClient false
InitGeo ==
    /\ storage = <<>>
    /\ lsState = "ok"
    /\ isClient = FALSE
    /\ clock = 0
    /\ geoRet = [op |-> "render", req |-> <<>>, hit |-> <<>>, articles |-> <<>>,
                 dropped |-> 0, threw |-> FALSE]
    /\ articles = <<>>
    /\ loading = FALSE
    /\ error = ""
    /\ cacheStats = [hits |-> 0, misses |-> 0, total |-> 0]
    /\ pending = <<>>
    /\ rendered = <<>>

(* --------------------- /api/wikipedia: fetchWithRetry ------------------ *)
MaxRetries == 4

\* what one fetch(url) gives: a 2xx response, HTTP 429, another status, or a
\* rejection (network error, AbortSignal.timeout)
Outcomes == {"ok", "429", "500", "neterr"}

\* the body of the loop after the await: return, wait and go round, or throw
AfterResponse_return429(o, attempt, maxRetries) ==
    IF o = "ok" THEN "returned"
    ELSE IF o = "429" THEN (IF attempt < maxRetries THEN "waiting" ELSE "returned")
    ELSE IF attempt = maxRetries THEN "threw"
    ELSE "waiting"

AfterResponse(o, attempt, maxRetries) ==
    IF o = "ok" THEN "returned"
    ELSE IF o = "429" /\ attempt < maxRetries THEN "waiting"
    ELSE IF attempt = maxRetries THEN "threw"
    ELSE "waiting"

\* the delay of the setTimeout it awaits, 0 when it does not wait
Backoff(o, attempt, maxRetries) ==
    IF o = "ok" THEN 0
    ELSE IF o = "429" /\ attempt < maxRetries THEN 1000 * attempt
    ELSE IF attempt = maxRetries THEN 0
    ELSE 500 * attempt

\* fetchWithRetry(url, maxRetries): the first round of the loop issues its fetch
FetchWithRetry(maxRetries) ==
    /\ fw.pc \in {"idle", "returned", "threw"}
    /\ fw' = [pc |-> "fetching", maxRetries |-> maxRetries, attempt |-> 1,
              requests |-> 1, outcomes |-> <<>>, wait |-> 0, waits |-> <<>>]
    /\ UNCHANGED <<apiCache, srvClock, pd, get, apiRet, cacheVars, geoVars, hookVars, libVars>>

\* the awaited fetch settles
FwResponse(o) ==
    /\ fw.pc = "fetching"
    /\ fw' = [fw EXCEPT !.pc = AfterResponse(o, fw.attempt, fw.maxRetries),
                        !.outcomes = Append(@, o),
                        !.wait = Backoff(o, fw.attempt, fw.maxRetries)]
    /\ UNCHANGED <<apiCache, srvClock, pd, get, apiRet, cacheVars, geoVars, hookVars, libVars>>

\* the backoff timer fires: attempt++ and the next fetch is issued
FwTimer ==
    /\ fw.pc = "waiting"
    /\ fw' = [fw EXCEPT !.pc = "fetching", !.attempt = @ + 1, !.requests = @ + 1,
                        !.wait = 0, !.waits = Append(@, fw.wait)]
    /\ UNCHANGED <<apiCache, srvClock, pd, get, apiRet, cacheVars, geoVars, hookVars, libVars>>

(* -------------------- /api/wikipedia: fetchPageDetails ----------------- *)
CACHE_DURATION == 5 * 60 * 1000
BATCH_SIZE == 20
CONCURRENT_BATCHES == 3

Min(a, b) == IF a < b THEN a ELSE b

\* the key of an apiCache entry: its prefix and the values interpolated into it
ApiKey(kind, ids, parts) == [kind |-> kind, ids |-> ids, parts |-> parts]

\* `pages:${batch.join(',')}`
PagesKey(batch) == ApiKey("pages", batch, <<>>)

\* the for loop that slices pageIds into batches
Batches(pageIds) ==
    [b \in 1..((Len(pageIds) + BATCH_SIZE - 1) \div BATCH_SIZE) |->
        SubSeq(pageIds, (b - 1) * BATCH_SIZE + 1, Min(b * BATCH_SIZE, Len(pageIds)))]

\* batches.slice(i, i + CONCURRENT_BATCHES): the batches of the group that starts at g
GroupOf_all(g, nb) == g..nb

GroupOf(g, nb) == g..Min(g + CONCURRENT_BATCHES - 1, nb)

\* a page as the combined call or the summary call gives it, and the record
\* made when the summary call fails
PageRecord(id) == [pageid |-> id, title |-> "Title", extract |-> "text"]
Placeholder(id) == [pageid |-> id, title |-> "Page", extract |-> ""]

\* Object.values(data.query.pages).map(...): the pages by ascending pageid
ProcessedPages(batch) ==
    LET sorted == SortNum(batch)
    IN  [i \in 1..Len(sorted) |-> PageRecord(sorted[i])]

\* the fallback with the summary calls of the ids in failed rejected
FallbackResults_dropFailed(batch, failed) ==
    LET kept == SelectSeq(batch, LAMBDA id : id \notin failed)
    IN  [i \in 1..Len(kept) |-> PageRecord(kept[i])]

FallbackResults(batch, failed) ==
    [i \in 1..Len(batch) |->
        IF batch[i] \in failed THEN Placeholder(batch[i]) ELSE PageRecord(batch[i])]

ApiSet_skip(c, key, data, t) == c

\* apiCache.set(key, { data, timestamp: Date.now() })
ApiSet(c, key, data, t) == MapSet(c, [key |-> key, data |-> data, timestamp |-> t])

\* cached && Date.now() - cached.timestamp < CACHE_DURATION
Fresh(c, key, t) == MapHas(c, key) /\ t - Entry(c, key).timestamp < CACHE_DURATION

RECURSIVE Flatten(_)
Flatten(seqs) == IF seqs = <<>> THEN <<>> ELSE Head(seqs) \o Flatten(Tail(seqs))

\* batchGroup.map(async ...) up to the first await of each batch: a cached
\* batch is done, the others have their combined call on the way
StartGroup(p, g, c, t) ==
    LET grp == GroupOf(g, Len(p.batches))
        hit(b) == Fresh(c, PagesKey(p.batches[b]), t)
    IN  [p EXCEPT
            !.pc = "running",
            !.group = g,
            !.status = [b \in DOMAIN p.batches |->
                           IF b \in grp THEN (IF hit(b) THEN "done" ELSE "upstream")
                           ELSE p.status[b]],
            !.how = [b \in DOMAIN p.batches |->
                           IF b \in grp /\ hit(b) THEN "cache" ELSE p.how[b]],
            !.out = [b \in DOMAIN p.batches |->
                           IF b \in grp /\ hit(b)
                           THEN Entry(c, PagesKey(p.batches[b])).data ELSE p.out[b]],
            !.calls = @ + Cardinality({b \in grp : ~hit(b)})]

\* fetchPageDetails(pageIds) up to its first await, with apiCache c at time t
PdCall(pageIds, c, t) ==
    LET bs == Batches(pageIds)
        p0 == [pc |-> "running", ids |-> pageIds, batches |-> bs, group |-> 0,
               status |-> [b \in DOMAIN bs |-> "waiting"],
               how |-> [b \in DOMAIN bs |-> "none"],
               out |-> [b \in DOMAIN bs |-> <<>>],
               failed |-> [b \in DOMAIN bs |-> {}],
               results |-> <<>>, calls |-> 0]
    IN  IF pageIds = <<>> THEN [p0 EXCEPT !.pc = "done"] ELSE StartGroup(p0, 1, c, t)

FetchPageDetails(pageIds) ==
    /\ pd.pc \in {"idle", "done"}
    /\ get.pc = "idle"
    /\ pd' = PdCall(pageIds, apiCache, srvClock)
    /\ UNCHANGED <<fw, apiCache, srvClock, get, apiRet, cacheVars, geoVars, hookVars, libVars>>

\* the combined call of batch b settles: pages, a body without query.pages, or
\* an exception (fetchWithRetry gave up, or the body is not JSON)
PdResponse(b, o) ==
    /\ pd.pc = "running"
    /\ b \in DOMAIN pd.batches
    /\ pd.status[b] = "upstream"
    /\ pd' = [pd EXCEPT
                !.status[b] = IF o = "throws" THEN "fallback" ELSE "done",
                !.how[b] = IF o = "throws" THEN "fallback" ELSE o,
                !.out[b] = IF o = "pages" THEN ProcessedPages(pd.batches[b]) ELSE <<>>]
    /\ apiCache' = IF o = "pages"
                   THEN ApiSet(apiCache, PagesKey(pd.batches[b]),
                               ProcessedPages(pd.batches[b]), srvClock)
                   ELSE apiCache
    /\ UNCHANGED <<fw, srvClock, get, apiRet, cacheVars, geoVars, hookVars, libVars>>

\* Promise.allSettled of the summary calls of batch b, those of failed rejected
PdFallback(b, failed) ==
    /\ pd.pc = "running"
    /\ b \in DOMAIN pd.batches
    /\ pd.status[b] = "fallback"
    /\ pd' = [pd EXCEPT !.status[b] = "done",
                        !.failed[b] = failed,
                        !.out[b] = FallbackResults(pd.batches[b], failed)]
    /\ UNCHANGED <<fw, apiCache, srvClock, get, apiRet, cacheVars, geoVars, hookVars, libVars>>

\* Promise.all of the group resolves: results.push(...batchResults.flat()) and
\* the next round of the loop, or the return
PdJoin ==
    LET nb == Len(pd.batches)
        grp == GroupOf(pd.group, nb)
        last == Min(pd.group + CONCURRENT_BATCHES - 1, nb)
        pushed == [pd EXCEPT !.results =
                      @ \o Flatten([i \in 1..(last - pd.group + 1) |-> pd.out[pd.group + i - 1]])]
    IN  /\ pd.pc = "running"
        /\ \A b \in grp : pd.status[b] = "done"
        /\ pd' = IF last < nb THEN StartGroup(pushed, last + 1, apiCache, srvClock)
                 ELSE [pushed EXCEPT !.pc = "done"]
        /\ UNCHANGED <<fw, apiCache, srvClock, get, apiRet, cacheVars, geoVars, hookVars, libVars>>

(* ------------------------ /api/wikipedia: GET -------------------------- *)
(* A search parameter that is absent (searchParams.get gives null) is ""   *)
(* for query and Absent for a number; radius and limit carry their         *)
(* defaults.  Places and pages are numbered 1, 2, ...                      *)
API_MAX_CACHE_ENTRIES == 200
Absent == 0

SrvReq(q, lat, lon, radius, year, limit) ==
    [query |-> q, lat |-> lat, lon |-> lon, radius |-> radius, year |-> year, limit |-> limit]

GeoReq(lat) == SrvReq("", lat, 1, 10000, Absent, 10)

\* `api:${query || 'geo'}:${lat}:${lon}:${radius}:${year}:${limit}`
CacheKey(r) ==
    ApiKey("api", <<>>, <<IF r.query = "" THEN "geo" ELSE r.query,
                          r.lat, r.lon, r.radius, r.year, r.limit>>)

\* `search:${query}:${limit}`
SearchKey(r) == ApiKey("search", <<>>, <<r.query, r.limit>>)

\* `geo:${lat}:${lon}:${maxRadius}:${limit}`
GeoKey(r) == ApiKey("geo", <<>>, <<r.lat, r.lon, Min(r.radius, 10000), r.limit>>)

\* the key of the branch the request takes
BranchKey(r) == IF r.query # "" THEN SearchKey(r) ELSE GeoKey(r)

\* if (query) ... else if (lat && lon) ... : one of the two branches is taken
Valid(r) == r.query # "" \/ (r.lat # Absent /\ r.lon # Absent)

\* the page ids a search that finds something comes back with: a title search
\* also lists a title without a page, a place search the page of the place
SearchHits(r) == IF r.query # "" THEN <<1, -1>> ELSE <<r.lat>>

\* article.extract && article.extract.includes(year): page n tells of year 1900 + n
Mentions(page, year) == page.extract # "" /\ year = 1900 + page.pageid

\* sort(([, a], [, b]) => b.timestamp - a.timestamp): stable, newest first; an
\* entry goes behind the newer ones and the equally old ones that stood before it
NewestFirst(entries) ==
    LET n == Len(entries)
        rank == [i \in 1..n |->
                    1 + Cardinality({j \in 1..n :
                            \/ entries[j].timestamp > entries[i].timestamp
                            \/ (entries[j].timestamp = entries[i].timestamp /\ j < i)})]
    IN  [k \in 1..n |-> entries[CHOOSE i \in 1..n : rank[i] = k]]

\* cleanupApiCache: the entries left in the map, in their new insertion order
cleanupApiCache(c, t) ==
    LET kept == SelectSeq(c, LAMBDA e : ~(t - e.timestamp > CACHE_DURATION))
    IN  IF Len(kept) > API_MAX_CACHE_ENTRIES
        THEN Slice(NewestFirst(kept), API_MAX_CACHE_ENTRIES)
        ELSE kept

\* NextResponse.json(...) together with what the handler did to produce it
Response(phase, key, status, cached, arts, err, lookups, cleaned, size) ==
    [op |-> "GET", phase |-> phase, key |-> key, status |-> status,
     success |-> status = 200, cached |-> cached, articles |-> arts, error |-> err,
     lookups |-> lookups, cleaned |-> cleaned, size |-> size]

\* the handler from "if (searchResults.length === 0)" to the await of
\* fetchPageDetails, with apiCache c at time t
GetAfterSearch(c, r, results, t, phase) ==
    IF results = <<>>
    THEN /\ apiCache' = ApiSet(c, CacheKey(r), <<>>, t)
         /\ get' = [pc |-> "idle", req |-> <<>>]
         /\ pd' = pd
         /\ apiRet' = Response(phase, CacheKey(r), 200, FALSE, <<>>, "", 2, FALSE, Len(c) + 1)
    ELSE /\ apiCache' = c
         /\ get' = [pc |-> "details", req |-> <<r>>]
         /\ pd' = PdCall(SelectSeq(results, LAMBDA id : id > 0), c, t)
         /\ apiRet' = apiRet

\* a request arrives at time t: the handler up to its first await or response
GetStart(r, t) ==
    /\ get.pc = "idle"
    /\ pd.pc \in {"idle", "done"}
    /\ t >= srvClock
    /\ srvClock' = t
    /\ IF Fresh(apiCache, CacheKey(r), t)
       THEN /\ apiRet' = Response("start", CacheKey(r), 200, TRUE,
                                  Entry(apiCache, CacheKey(r)).data, "", 1, FALSE,
                                  Len(apiCache))
            /\ UNCHANGED <<apiCache, pd, get>>
       ELSE IF ~Valid(r)
       THEN /\ apiRet' = Response("start", CacheKey(r), 400, FALSE, <<>>,
                                  "Either query or lat/lon coordinates are required",
                                  1, FALSE, Len(apiCache))
            /\ UNCHANGED <<apiCache, pd, get>>
       ELSE IF Fresh(apiCache, BranchKey(r), t)
       THEN GetAfterSearch(apiCache, r, Entry(apiCache, BranchKey(r)).data, t, "start")
       ELSE /\ get' = [pc |-> "search", req |-> <<r>>]
            /\ UNCHANGED <<apiCache, pd, apiRet>>
    /\ UNCHANGED <<fw, cacheVars, geoVars, hookVars, libVars>>

\* the search calls settle: nothing found, page ids, or fetchWithRetry threw
GetSearchDone(o) ==
    /\ get.pc = "search"
    /\ LET r == get.req[1]
           results == IF o = "ids" THEN SearchHits(r) ELSE <<>>
       IN  IF o = "throws"
           THEN /\ apiRet' = Response("search", CacheKey(r), 500, FALSE, <<>>,
                                      "HTTP 500", 2, FALSE, Len(apiCache))
                /\ get' = [pc |-> "idle", req |-> <<>>]
                /\ UNCHANGED <<apiCache, pd>>
           ELSE GetAfterSearch(ApiSet(apiCache, BranchKey(r), results, srvClock),
                               r, results, srvClock, "search")
    /\ UNCHANGED <<fw, srvClock, cacheVars, geoVars, hookVars, libVars>>

\* fetchPageDetails has returned: the year filter, the store under cacheKey,
\* cleanupApiCache when Math.random() < 0.1, and the response
GetDetailsDone(doCleanup) ==
    /\ get.pc = "details"
    /\ pd.pc = "done"
    /\ LET r == get.req[1]
           arts == IF r.year # Absent
                   THEN SelectSeq(pd.results, LAMBDA page : Mentions(page, r.year))
                   ELSE pd.results
           c1 == ApiSet(apiCache, CacheKey(r), arts, srvClock)
       IN  /\ apiCache' = IF doCleanup THEN cleanupApiCache(c1, srvClock) ELSE c1
           /\ apiRet' = Response("details", CacheKey(r), 200, FALSE, arts, "", 2,
                                 doCleanup, Len(c1))
    /\ get' = [pc |-> "idle", req |-> <<>>]
    /\ UNCHANGED <<fw, srvClock, pd, cacheVars, geoVars, hookVars, libVars>>

\* Date.now() on the server moves on to t
SrvTick(t) ==
    /\ t > srvClock
    /\ srvClock' = t
    /\ UNCHANGED <<fw, apiCache, pd, get, apiRet, cacheVars, geoVars, hookVars, libVars>>

InitServer ==
    /\ fw = [pc |-> "idle", maxRetries |-> 0, attempt |-> 0, requests |-> 0,
             outcomes |-> <<>>, wait |-> 0, waits |-> <<>>]
    /\ apiCache = <<>>
    /\ srvClock = 0
    /\ pd = [pc |-> "idle", ids |-> <<>>, batches |-> <<>>, group |-> 0, status |-> <<>>,
             how |-> <<>>, out |-> <<>>, failed |-> <<>>, results |-> <<>>, calls |-> 0]
    /\ get = [pc |-> "idle", req |-> <<>>]
    /\ apiRet = [op |-> "none", phase |-> "", key |-> ApiKey("", <<>>, <<>>), status |-> 0,
                 success |-> FALSE, cached |-> FALSE, articles |-> <<>>, error |-> "",
                 lookups |-> 0, cleaned |-> FALSE, size |-> 0]

vars == <<cacheVars, otherVars>>

Init == InitCache /\ InitGeo /\ InitServer /\ InitLib

NextCache ==
    \/ \E k \in Keys : Set(k, 1)
    \/ \E k \in Keys : Get(k)
    \/ \E k \in Keys : Has(k)
    \/ \E k \in Keys : Delete(k)
    \/ Clear
    \/ SweepTick
    \/ Destroy
    \/ DateNow

SpecCache == Init /\ [][NextCache]_vars

\* the same cache driven with two payloads over the non-empty keys
NextCacheData ==
    \/ \E k \in Keys \ {""}, d \in Data : Set(k, d)
    \/ \E k \in Keys \ {""} : Get(k)
    \/ \E k \in Keys \ {""} : Has(k)
    \/ \E k \in Keys \ {""} : Delete(k)
    \/ Clear
    \/ SweepTick
    \/ Destroy
    \/ DateNow

SpecCacheData == Init /\ [][NextCacheData]_vars
NextGeo ==
    \/ \E r \in Requests : FindCachedArticles(r)
    \/ \E a \in Responses, p \in StoreParams : Len(storage) < MaxStored /\ AddToCache(a, p)
    \/ Mount
    \/ \E t \in {CACHE_EXPIRY} : GeoTick(t)

\* the hook next to one SmartCache
InitHook == Init /\ maxSize = MaxCap

SpecGeo == InitHook /\ [][NextGeo]_vars

\* the geo cache filled up to its cap: one search stored again and again
\* while the clock moves on by a millisecond
NextGeoStore ==
    \/ FindCachedArticles(Params(P0, 2500, "", 0))
    \/ AddToCache(<< Article(3, NoCoords) >>, Params(P0, 10000, "", 0))
    \/ Mount
    \/ \E t \in {1} : GeoTick(t)

SpecGeoStore == InitHook /\ [][NextGeoStore]_vars

\* the hook driven by its props, with a storage that fails
MaxStats == 2

HookProps ==
    { Props(P0, 10000, "", 0, TRUE), Props(P0, 2500, "", 0, TRUE),
      Props(P0, 2500, "", 0, FALSE), Props(Point(Undefined, Undefined), 2500, "", 0, TRUE) }

NextHook ==
    \/ \E props \in HookProps :
          pending = <<>> /\ cacheStats.total < MaxStats /\ FetchStart(props)
    \/ \E ok \in BOOLEAN, a \in Responses : Len(storage) < MaxStored /\ FetchDone(1, ok, a)
    \/ ClearCache
    \/ Mount
    \/ \E m \in {"absent", "throws"} : StorageFails(m)
    \/ CorruptValue
    \/ CorruptEntry

SpecHook == InitHook /\ [][NextHook]_vars

\* fetchWithRetry called over and over; every fetch settles (the 8 s timeout
\* rejects it at the latest) and every timer fires
NextRetry ==
    \/ \E m \in 1..MaxRetries : FetchWithRetry(m)
    \/ \E o \in Outcomes : FwResponse(o)
    \/ FwTimer

SpecRetry ==
    /\ InitHook
    /\ [][NextRetry]_vars
    /\ WF_vars(\E o \in Outcomes : FwResponse(o))
    /\ WF_vars(FwTimer)

\* the key function applied to every short list of ids
NextKey == \E ids \in IdLists : GenerateArticleCacheKey(ids)

SpecKey == InitHook /\ [][NextKey]_vars

\* fetchPageDetails called with the ids 1..n for list lengths around the batch
\* and group sizes; in a fallback no summary call fails, or the first one does
Range(n) == [i \in 1..n |-> i]
ListLengths == {0, 20, 45, 61}

NextBatch ==
    \/ \E n \in ListLengths : FetchPageDetails(Range(n))
    \/ \E b \in DOMAIN pd.batches, o \in {"pages", "nopages", "throws"} : PdResponse(b, o)
    \/ \E b \in DOMAIN pd.batches, none \in BOOLEAN :
          PdFallback(b, IF none THEN {} ELSE {pd.batches[b][1]})
    \/ PdJoin

SpecBatch == InitHook /\ [][NextBatch]_vars

\* the same two ids asked for in either order, before and after the TTL
NextBatchKey ==
    \/ \E ids \in {<<1, 2>>, <<2, 1>>} : FetchPageDetails(ids)
    \/ \E b \in DOMAIN pd.batches, o \in {"pages", "nopages", "throws"} : PdResponse(b, o)
    \/ \E b \in DOMAIN pd.batches, none \in BOOLEAN :
          PdFallback(b, IF none THEN {} ELSE {pd.batches[b][1]})
    \/ PdJoin
    \/ \E t \in {CACHE_DURATION} : SrvTick(t)

SpecBatchKey == InitHook /\ [][NextBatchKey]_vars

\* a burst of place searches, the one for place n at millisecond n: place 1
\* and the last place have articles, the EmptyPlaces places between them have
\* none; the search for place 1 comes again at any moment
EmptyPlaces == 100

PlaceOf(e) == IF e.key.kind = "api" THEN e.key.parts[2] ELSE 0
MaxPlace(c) ==
    LET places == {PlaceOf(c[i]) : i \in 1..Len(c)} \cup {0}
    IN  CHOOSE m \in places : \A x \in places : x <= m

NextPlace == MaxPlace(apiCache) + 1
HasArticles(r) == r.lat = 1 \/ r.lat > EmptyPlaces + 1

NextApiFill ==
    \/ NextPlace <= EmptyPlaces + 2 /\ GetStart(GeoReq(NextPlace), NextPlace)
    \/ GetStart(GeoReq(1), srvClock)
    \/ /\ get.pc = "search"
       /\ \E o \in {"ids", "empty", "throws"} :
             /\ o = "ids" => HasArticles(get.req[1])
             /\ o = "empty" => ~HasArticles(get.req[1])
             /\ GetSearchDone(o)
    \/ \E b \in DOMAIN pd.batches : PdResponse(b, "pages")
    \/ PdJoin
    \/ \E doCleanup \in BOOLEAN : GetDetailsDone(doCleanup)

SpecApiFill == InitHook /\ [][NextApiFill]_vars

\* the hook and the handler side by side, each given requests with and
\* without the parameters it needs
SrvRequests ==
    { GeoReq(1),
      SrvReq("", Absent, Absent, 10000, Absent, 10),
      SrvReq("", 1, Absent, 10000, Absent, 10),
      SrvReq("rome", Absent, Absent, 10000, 1901, 10) }

NextReject ==
    \/ \E props \in HookProps :
          pending = <<>> /\ cacheStats.total < MaxStats /\ FetchStart(props)
    \/ \E ok \in BOOLEAN, a \in Responses : Len(storage) < MaxStored /\ FetchDone(1, ok, a)
    \/ Mount
    \/ \E r \in SrvRequests : GetStart(r, srvClock)
    \/ \E o \in {"ids", "empty", "throws"} : GetSearchDone(o)
    \/ \E b \in DOMAIN pd.batches, o \in {"pages", "throws"} : PdResponse(b, o)
    \/ \E b \in DOMAIN pd.batches : PdFallback(b, {})
    \/ PdJoin
    \/ \E doCleanup \in BOOLEAN : GetDetailsDone(doCleanup)

SpecReject == InitHook /\ [][NextReject]_vars

\* place searches and title searches that carry the same coordinates, as the
\* hook sends them (lat and lon go into the URL whenever they are defined);
\* upstream answers every search and every batch
KeyRequests ==
    { GeoReq(1), GeoReq(2),
      SrvReq("geo", 2, 1, 10000, Absent, 10),
      SrvReq("rome", 2, 1, 10000, Absent, 10),
      SrvReq("rome", 1, 1, 10000, Absent, 10) }

NextApiKeys ==
    \/ \E r \in KeyRequests : GetStart(r, srvClock)
    \/ GetSearchDone("ids")
    \/ \E b \in DOMAIN pd.batches : PdResponse(b, "pages")
    \/ PdJoin
    \/ GetDetailsDone(FALSE)

SpecApiKeys == InitHook /\ [][NextApiKeys]_vars

\* the map is panned between two places while fetches are in flight: at most
\* MaxPending calls await their response, the responses arrive in any order,
\* and the API answers a place with the articles of that place
MaxPending == 2
MaxRenders == 3

OverlapProps == {Props(P0, 10000, "", 0, TRUE), Props(P2, 10000, "", 0, TRUE)}

ResultFor(params) ==
    IF Point(params.lat, params.lon) = P0
    THEN << Article(1, P0), Article(2, P1), Article(3, NoCoords) >>
    ELSE << Article(3, NoCoords), Article(1, P0) >>

NextOverlap ==
    \/ \E props \in OverlapProps :
          Len(pending) < MaxPending /\ cacheStats.total < MaxRenders /\ FetchStart(props)
    \/ \E i \in 1..Len(pending), ok \in BOOLEAN :
          FetchDone(i, ok, ResultFor(pending[i].params))
    \/ Mount
    \/ \E t \in {1, CACHE_EXPIRY} : GeoTick(t)

SpecOverlap == InitHook /\ [][NextOverlap]_vars

\* useDebounce over a plain callback, with every combination of the options
DebounceOptions ==
    {Options(d, l, tr, m) : d \in 2..MaxDelay, l \in BOOLEAN, tr \in BOOLEAN,
                            m \in {NoMaxWait, MaxDelay + 1}}

NextDebounce ==
    \/ \E o \in DebounceOptions : UseDebounce("plain", o)
    \/ Call
    \/ \E tm \in timers : Timer(tm)
    \/ Cancel
    \/ DbTick

SpecDebounce == InitHook /\ [][NextDebounce]_vars

\* useDebouncedGeoSearch: useDebounce(search, { delay }) and the searches it starts
NextGeoSearch ==
    \/ \E d \in 2..MaxDelay : UseDebounce("search", Options(d, FALSE, TRUE, NoMaxWait))
    \/ Call
    \/ \E tm \in timers : Timer(tm)
    \/ DbTick
    \/ \E i \in 1..Len(inflight), ok \in BOOLEAN : SearchSettle(i, ok)
    \/ SearchCancel

SpecGeoSearch == InitHook /\ [][NextGeoSearch]_vars

(* ====================== SmartCache: properties ======================== *)
\* position of the entry with the smallest lastAccessed, the first one among ties
Victim(c) ==
    CHOOSE i \in 1..Len(c) :
        /\ \A j \in 1..Len(c) : c[j].lastAccessed >= c[i].lastAccessed
        /\ \A j \in 1..(i - 1) : c[j].lastAccessed > c[i].lastAccessed

\* C1: after a set completes the cache holds at most maxSize entries.
C1_CapacityBound == ret.op = "set" => Len(cache) <= maxSize

\* C2: set of a new key into a cache holding maxSize entries removes exactly
\* the entry with the smallest lastAccessed (first in iteration order among
\* ties) and leaves maxSize entries; set of a present key removes no entry.
C2_LRUEviction ==
    [][\A k \in Keys :
        (ret'.op = "set" /\ ret'.key = k) =>
            IF MapHas(cache, k)
            THEN MapKeys(cache') = MapKeys(cache)
            ELSE Len(cache) = maxSize =>
                    /\ MapKeys(cache') = (MapKeys(cache) \ {cache[Victim(cache)].key}) \cup {k}
                    /\ Len(cache') = maxSize]_vars

\* C3: get returns data only for an entry with now - timestamp <= ttl; get or
\* has on an entry with now - timestamp > ttl returns absent/false and deletes
\* it (size shrinks by one), and the key stays absent until it is set again.
C3_NoExpiredHit ==
    [][\A k \in Keys :
        /\ (ret'.op = "get" /\ ret'.key = k /\ ret'.val # 0) =>
              /\ MapHas(cache, k)
              /\ now - Entry(cache, k).timestamp <= ttl
        /\ (ret'.op = "has" /\ ret'.key = k /\ ret'.val # 0) =>
              /\ MapHas(cache, k)
              /\ now - Entry(cache, k).timestamp <= ttl
        /\ (ret'.op \in {"get", "has"} /\ ret'.key = k /\ MapHas(cache, k)
                /\ now - Entry(cache, k).timestamp > ttl) =>
              /\ ret'.val = 0
              /\ ~MapHas(cache', k)
              /\ Len(cache') = Len(cache) - 1
        /\ (~MapHas(cache, k) /\ MapHas(cache', k)) =>
              (ret'.op = "set" /\ ret'.key = k)]_vars

\* a get or has has just found its entry expired and removed it
C3_Witness ==
    /\ ret.op \in {"get", "has"}
    /\ ret.expired
    /\ ret.val = 0
    /\ ~MapHas(cache, ret.key)
    /\ Len(cache) > 0

\* C4: get and has never change an entry's creation timestamp; the timestamp
\* of a key that stays in the cache changes only in a set of that key.
C4_ExpiryIndependentOfAccess ==
    [][\A k \in Keys :
        (MapHas(cache, k) /\ MapHas(cache', k)
            /\ Entry(cache', k).timestamp # Entry(cache, k).timestamp) =>
                (ret'.op = "set" /\ ret'.key = k)]_vars

\* a successful get has read an entry later than it was created
C4_Witness ==
    /\ ret.op = "get"
    /\ ret.val # 0
    /\ MapHas(cache, ret.key)
    /\ Entry(cache, ret.key).lastAccessed > Entry(cache, ret.key).timestamp

\* C5: set(k, v) leaves k with data v, accessCount 1 and timestamp =
\* lastAccessed = now, for a new and for a present key; a get of k within ttl
\* returns the stored data, adds exactly 1 to accessCount and sets
\* lastAccessed to now, leaving data and timestamp as they were.
C5_SetGetRoundTrip ==
    [][\A k \in Keys :
        /\ (ret'.op = "set" /\ ret'.key = k) =>
              /\ MapHas(cache', k)
              /\ Entry(cache', k).data = ret'.val
              /\ Entry(cache', k).accessCount = 1
              /\ Entry(cache', k).timestamp = now
              /\ Entry(cache', k).lastAccessed = now
        /\ (ret'.op = "get" /\ ret'.key = k /\ MapHas(cache, k)
                /\ now - Entry(cache, k).timestamp <= ttl) =>
              /\ ret'.val = Entry(cache, k).data
              /\ MapHas(cache', k)
              /\ Entry(cache', k).data = Entry(cache, k).data
              /\ Entry(cache', k).timestamp = Entry(cache, k).timestamp
              /\ Entry(cache', k).accessCount = Entry(cache, k).accessCount + 1
              /\ Entry(cache', k).lastAccessed = now]_vars

\* a later get has returned the payload 2 and raised accessCount to 2
C5_Witness ==
    /\ ret.op = "get"
    /\ ret.val = 2
    /\ MapHas(cache, ret.key)
    /\ Entry(cache, ret.key).accessCount = 2
    /\ Entry(cache, ret.key).lastAccessed > Entry(cache, ret.key).timestamp

\* C6: one sweep timer runs from construction on; destroy leaves the cache
\* empty and no timer registered, no sweep tick fires once no timer is
\* registered, and there is never more than one sweep timer.
C6_Teardown ==
    /\ (cleanupInterval = 1 /\ activeTimers = {1})
    /\ [][/\ ret'.op = "destroy" =>
                (cache' = <<>> /\ activeTimers' = {} /\ cleanupInterval' = 0)
          /\ activeTimers = {} => (ret'.op # "cleanup" /\ activeTimers' = {})
          /\ Cardinality(activeTimers') <= 1]_vars

\* after destroy an expired entry sits in the cache and no timer is registered
C6_Witness ==
    /\ activeTimers = {}
    /\ cleanupInterval = 0
    /\ \E i \in 1..Len(cache) : now - cache[i].timestamp > ttl
(* ======================= geo cache: properties ======================== *)
\* the request, the covering entry and the result of the last findCachedArticles
Req == geoRet.req[1]
Hit == geoRet.hit # <<>>
HitEntry == geoRet.hit[1]
Found == geoRet.op = "find"

SeqRange(seq) == {seq[i] : i \in 1..Len(seq)}

\* the articles of seq that are in keep, in the order of seq
RECURSIVE Restrict(_, _)
Restrict(seq, keep) ==
    IF seq = <<>> THEN <<>>
    ELSE IF Head(seq) \in keep THEN <<Head(seq)>> \o Restrict(Tail(seq), keep)
         ELSE Restrict(Tail(seq), keep)

CentreDistance(a, b) == calculateDistance(a.lat, a.lon, b.lat, b.lon)

\* C7: the entry a lookup is served from has radius >= the request's and its
\* centre within E.radius - R.radius of the request's; a lookup hits whenever
\* an unexpired stored entry with the request's query and year has that
\* geometry: always for the same centre and a radius not smaller than the
\* request's, never for the same radius and another centre.
C7_CoverageGeometry ==
    Found =>
        /\ Hit =>
            /\ HitEntry.params.radius >= Req.radius
            /\ CentreDistance(HitEntry.params, Req) <= HitEntry.params.radius - Req.radius
            /\ HitEntry.params.radius = Req.radius =>
                  (HitEntry.params.lat = Req.lat /\ HitEntry.params.lon = Req.lon)
        /\ \A i \in 1..Len(storage) :
              LET E == storage[i].params
              IN  (/\ isClient
                   /\ clock - storage[i].timestamp < CACHE_EXPIRY
                   /\ E.query = Req.query /\ E.year = Req.year
                   /\ E.radius >= Req.radius) =>
                      /\ CentreDistance(E, Req) <= E.radius - Req.radius => Hit
                      /\ (E.lat = Req.lat /\ E.lon = Req.lon) => Hit

\* a lookup was served from an entry with a larger radius around another centre
C7_Witness ==
    /\ Found /\ Hit
    /\ HitEntry.params.radius > Req.radius
    /\ HitEntry.params.lat # Req.lat
    /\ HitEntry.params.query = Req.query /\ HitEntry.params.year = Req.year

\* C8: the entry a lookup is served from has the request's query unless the
\* request names none, and the request's year unless the request names none.
C8_QueryYearMatch ==
    (Found /\ Hit) =>
        /\ Req.query = "" \/ Req.query = HitEntry.params.query
        /\ Req.year = 0 \/ Req.year = HitEntry.params.year

C10_NoCoordinatesKept ==
    (Found /\ Hit) =>
        \A a \in SeqRange(HitEntry.articles) :
            a.lacked => a \in SeqRange(geoRet.articles)
\* C11: with storage available every addToCache puts one new entry with the
\* current timestamp in front of the unexpired entries, identical ones
\* included; the stored list then has at most MAX_CACHE_ENTRIES entries, and
\* every entry cut off is at least as old as every entry kept.
C11_StoreAndCap ==
    [][(geoRet'.op = "add" /\ isClient) =>
        LET valid == SelectSeq(storage, LAMBDA e : clock - e.timestamp < CACHE_EXPIRY)
            n == Len(storage')
        IN  /\ n <= MAX_CACHE_ENTRIES
            /\ n = IF Len(valid) + 1 > MAX_CACHE_ENTRIES
                   THEN MAX_CACHE_ENTRIES ELSE Len(valid) + 1
            /\ storage'[1].timestamp = clock
            /\ storage'[1].params = geoRet'.req[1]
            /\ \A j \in 2..n : storage'[j] = valid[j - 1]
            /\ \A i \in n..Len(valid) : \A j \in 1..n :
                  valid[i].timestamp <= storage'[j].timestamp]_vars

\* a store into the full list cut off an entry; the two newest entries are
\* identical and older entries are still kept
C11_Witness ==
    /\ geoRet.op = "add"
    /\ geoRet.dropped = 1
    /\ Len(storage) = MAX_CACHE_ENTRIES
    /\ storage[1] = storage[2]
    /\ storage[MAX_CACHE_ENTRIES].timestamp < storage[1].timestamp

\* C12: loadCache removes from storage exactly the entries with
\* now - timestamp > CACHE_EXPIRY and keeps every other entry.
C12_LoadValid ==
    [][(geoRet'.op = "find" /\ isClient) =>
        storage' = SelectSeq(storage, LAMBDA e : ~(clock - e.timestamp > CACHE_EXPIRY))]_vars
\* C13: failures of the durable storage never reach the caller: no operation of
\* the hook throws, and a fetch made while the storage is absent, throwing or
\* corrupt finds nothing, requests the articles as on a miss and shows no error.
C13_StorageFailuresContained ==
    geoRet.op \in {"fetch", "response", "failed", "clear"} =>
        /\ ~geoRet.threw
        /\ (geoRet.op = "fetch" /\ lsState # "ok") =>
              /\ geoRet.hit = <<>>
              /\ pending # <<>>
              /\ error = ""

\* what holds of a call of fetchWithRetry at every moment
FwSafe ==
    fw.pc # "idle" =>
        /\ fw.requests <= fw.maxRetries
        /\ Len(fw.outcomes) <= fw.requests
        /\ \A i \in 1..(Len(fw.outcomes) - 1) : fw.outcomes[i] # "ok"
        /\ fw.pc = "returned" =>
              /\ fw.outcomes[Len(fw.outcomes)] = "ok"
              /\ fw.requests = Len(fw.outcomes)
        /\ fw.pc = "threw" =>
              /\ fw.requests = fw.maxRetries
              /\ Len(fw.outcomes) = fw.maxRetries
              /\ \A i \in 1..Len(fw.outcomes) : fw.outcomes[i] # "ok"

\* C14: fetchWithRetry issues at most maxRetries requests, returns at the first
\* 2xx response and issues nothing after it, never returns a non-2xx response,
\* throws once maxRetries attempts have failed, and always comes to an end when
\* every request settles.
C14_BoundedRetry ==
    /\ []FwSafe
    /\ (fw.pc = "fetching") ~> (fw.pc \in {"returned", "threw"})

C14_Witness ==
    /\ fw.pc = "threw"
    /\ fw.maxRetries = 3
    /\ fw.outcomes = <<"429", "neterr", "429">>

\* C18: generateArticleCacheKey returns the ids joined in ascending numeric
\* order, so that the key of a list is the key of each of its permutations.
C18_NumericOrderKey ==
    keyRet.op = "key" =>
        keyRet.key = [prefix |-> "articles:", body |-> Join(SortNum(keyRet.ids))]

(* ==================== fetchPageDetails: properties ==================== *)
InFlight == {b \in DOMAIN pd.batches : pd.status[b] \in {"upstream", "fallback"}}

\* C15: n ids are split into ceil(n/20) batches of at most 20 ids that hold
\* every id once and in input order (45 ids: 3 batches); at most 3 batches are
\* in flight, and a batch of a later group starts only when every batch of the
\* groups before it is done.
C15_BoundedBatches ==
    pd.pc # "idle" =>
        LET n == Len(pd.ids)
            nb == Len(pd.batches)
        IN  /\ nb * 20 >= n
            /\ nb > 0 => (nb - 1) * 20 < n
            /\ n = 45 => nb = 3
            /\ \A b \in 1..nb : Len(pd.batches[b]) \in 1..20
            /\ Flatten(pd.batches) = pd.ids
            /\ Cardinality(InFlight) <= 3
            /\ \A b1, b2 \in 1..nb :
                  ((b1 - 1) \div 3 < (b2 - 1) \div 3 /\ pd.status[b2] # "waiting")
                      => pd.status[b1] = "done"

C15_Witness ==
    /\ Len(pd.ids) = 61
    /\ Len(pd.batches) = 4
    /\ pd.status[4] = "upstream"
    /\ pd.how[1] = "pages"
    /\ pd.how[2] = "fallback"

\* C16: a batch whose combined call failed contributes one record per id of the
\* batch, in the order of the batch: the page of the summary call, or a
\* placeholder with the id and an empty extract where that call failed too; the
\* call of fetchPageDetails still returns, with the records of every batch.
C16_BatchFallback ==
    /\ \A b \in DOMAIN pd.batches :
          (pd.how[b] = "fallback" /\ pd.status[b] = "done") =>
              /\ Len(pd.out[b]) = Len(pd.batches[b])
              /\ \A i \in 1..Len(pd.batches[b]) :
                    /\ pd.out[b][i].pageid = pd.batches[b][i]
                    /\ (pd.out[b][i].extract = "") <=> (pd.batches[b][i] \in pd.failed[b])
    /\ pd.pc = "done" =>
          pd.results = Flatten([b \in 1..Len(pd.batches) |-> pd.out[b]])

C16_Witness ==
    /\ pd.pc = "done"
    /\ Len(pd.ids) = 45
    /\ pd.how[1] = "pages"
    /\ pd.how[2] = "fallback"
    /\ pd.failed[2] = {21}
    /\ pd.how[3] = "pages"
    /\ Len(pd.results) = 45
    /\ pd.results[21] = Placeholder(21)

\* C17: a batch is cached under its sorted id list: a batch that starts while
\* apiCache holds, younger than the TTL, the pages of the same ids in whatever
\* order is served from the cache, with no upstream call.
C17_SortedBatchKey ==
    [][\A b \in DOMAIN pd'.batches :
          (/\ pd'.pc = "running"
           /\ pd'.status[b] # "waiting"
           /\ (pd.pc \in {"idle", "done"} \/ pd.status[b] = "waiting")
           /\ \E i \in 1..Len(apiCache) :
                 /\ apiCache[i].key.kind = "pages"
                 /\ Len(apiCache[i].key.ids) = Len(pd'.batches[b])
                 /\ SeqRange(apiCache[i].key.ids) = SeqRange(pd'.batches[b])
                 /\ srvClock - apiCache[i].timestamp < CACHE_DURATION)
          => (pd'.how[b] = "cache" /\ pd'.calls = 0)]_vars

(* ========================= GET: properties ============================ *)
\* a request whose key has a fresh entry is answered with the entry's data, and
\* no search, detail fetch or write is made for it
HitAnswered ==
    /\ (get.pc = "idle" /\ get'.pc # "idle") =>
          ~Fresh(apiCache, CacheKey(get'.req[1]), srvClock')
    /\ (/\ get.pc = "idle"
        /\ get' = get
        /\ apiRet' # apiRet
        /\ Fresh(apiCache, apiRet'.key, srvClock')) =>
          /\ apiRet'.cached
          /\ apiRet'.status = 200
          /\ apiRet'.articles = Entry(apiCache, apiRet'.key).data
          /\ apiCache' = apiCache
          /\ pd' = pd

\* a miss answered with success leaves its articles under the request's key
MissStored ==
    (/\ get'.pc = "idle"
     /\ get.pc # "idle" \/ apiCache' # apiCache
     /\ apiRet'.status = 200
     /\ ~apiRet'.cached) =>
        /\ Fresh(apiCache', apiRet'.key, srvClock')
        /\ Entry(apiCache', apiRet'.key).data = apiRet'.articles
        /\ Entry(apiCache', apiRet'.key).timestamp = srvClock'

\* the stored responses that leave apiCache in this step while younger than the TTL
Evicted ==
    {i \in 1..Len(apiCache) :
        /\ apiCache[i].key.kind = "api"
        /\ srvClock' - apiCache[i].timestamp < CACHE_DURATION
        /\ ~MapHas(apiCache', apiCache[i].key)}

\* C19 as stated: a fresh entry answers the request with no upstream call, a
\* successful miss stores its articles under the request's key, and the entry
\* is there for every repetition of the request within the TTL.
C19_Original ==
    [][HitAnswered /\ MissStored /\ Evicted = {}]_vars

\* C19: a fresh entry answers the request with no upstream call and a
\* successful miss stores its articles under the request's key; the entry
\* answers the repetitions of the request within the TTL for as long as
\* cleanupApiCache has not dropped it, which it does only when the map holds
\* more than 200 entries.
C19_HitAndStore ==
    [][/\ HitAnswered
       /\ MissStored
       /\ Evicted # {} =>
             /\ get.pc = "details"
             /\ apiRet'.cleaned
             /\ apiRet'.size > API_MAX_CACHE_ENTRIES]_vars

C19_Witness ==
    /\ apiRet.cached
    /\ apiRet.key = CacheKey(GeoReq(1))
    /\ apiRet.articles = <<PageRecord(1)>>
    /\ ~MapHas(apiCache, CacheKey(GeoReq(2)))
    /\ MapHas(apiCache, CacheKey(GeoReq(EmptyPlaces + 2)))

\* C20: a request without a query and without both coordinates is rejected
\* before any network or cache activity: fetchArticles and the handler make no
\* request and no cache lookup or write, change no state, and surface a
\* validation message.
C20_RejectedBeforeActivity ==
    [][/\ (geoRet'.op = "reject" /\ geoRet.op # "reject") =>
             /\ UNCHANGED <<storage, cacheStats, articles, loading, pending>>
             /\ error' # ""
       /\ (apiRet'.status = 400 /\ apiRet' # apiRet) =>
             /\ UNCHANGED <<apiCache, pd, get>>
             /\ apiRet'.lookups = 0
             /\ apiRet'.error # ""]_vars

\* C21: an upstream failure is a typed failure: a fetch that fails after a miss
\* leaves fetchArticles with an error message, no articles, loading false and
\* the geo cache as it was, and nothing is thrown; a handler whose upstream
\* call fails answers success=false with a message and leaves the entry of the
\* request's key as it was.
C21_TypedFailure ==
    [][/\ (geoRet'.op = "failed" /\ Len(pending') < Len(pending)) =>
             /\ ~geoRet'.threw
             /\ error' # ""
             /\ articles' = <<>>
             /\ loading' = FALSE
             /\ UNCHANGED <<storage, lsState>>
       /\ (get.pc # "idle" /\ get'.pc = "idle" /\ apiRet'.status # 200) =>
             /\ apiRet'.status = 500
             /\ ~apiRet'.success
             /\ apiRet'.error # ""
             /\ MapHas(apiCache', apiRet'.key) <=> MapHas(apiCache, apiRet'.key)
             /\ MapHas(apiCache, apiRet'.key) =>
                   Entry(apiCache', apiRet'.key) = Entry(apiCache, apiRet'.key)]_vars

C21_Witness ==
    /\ geoRet.op = "failed"
    /\ error = "Failed to fetch"
    /\ storage # <<>>
    /\ apiRet.status = 500
    /\ apiCache # <<>>

\* C25: a sweep tick of SmartCache deletes every entry whose age (now minus
\* timestamp) exceeds ttl, however recently it was read, deletes no other
\* entry, adds none, and leaves every remaining entry and their order as they
\* were.
C25_SweepExact ==
    [][ret'.op = "cleanup" =>
          /\ \A i \in 1..Len(cache) :
                IF now - cache[i].timestamp > ttl
                THEN ~MapHas(cache', cache[i].key)
                ELSE /\ MapHas(cache', cache[i].key)
                     /\ Entry(cache', cache[i].key) = cache[i]
          /\ \A j \in 1..Len(cache') : MapHas(cache, cache'[j].key)
          /\ \A i, j \in 1..Len(cache') :
                i < j => IndexOf(cache, cache'[i].key) < IndexOf(cache, cache'[j].key)
          /\ ret'.val = Len(cache) - Len(cache')]_vars

\* a sweep has just deleted an expired entry and kept a live one
C25_Witness ==
    /\ ret.op = "cleanup"
    /\ ret.val > 0
    /\ cache # <<>>

C24_SizeBounded ==
    get.pc = "idle" =>
        /\ Len(apiCache) <= API_MAX_CACHE_ENTRIES
        /\ apiRet.cleaned =>
              \A i \in 1..Len(apiCache) : srvClock - apiCache[i].timestamp <= CACHE_DURATION

\* the articles a request gets when upstream answers its search and its batch
Served(r) ==
    LET ids == SelectSeq(SearchHits(r), LAMBDA id : id > 0)
    IN  [i \in 1..Len(ids) |-> PageRecord(ids[i])]

\* C30: the response key is injective on (query, lat, lon, radius, year,
\* limit): a request answered from apiCache shares its key with no request of
\* other parameters and gets the articles of its own search, never those
\* stored for another parameter tuple.
C30_InjectiveKeys ==
    [][\A r \in KeyRequests :
          (GetStart(r, srvClock) /\ apiRet'.cached) =>
              /\ \A r2 \in KeyRequests : CacheKey(r2) = CacheKey(r) => r2 = r
              /\ apiRet'.articles = Served(r)]_vars

\* the entries of the stored list that loadCache still returns now
Live == ValidEntries(storage, clock)

Current == Params(Point(rendered[1].lat, rendered[1].lon), rendered[1].radius,
                  rendered[1].query, rendered[1].year)

\* C29: with overlapping fetches the response to a request whose parameters
\* are no longer the current ones never changes the displayed articles, and
\* loading is true for as long as some fetch is in flight.
C29_LatestWins ==
    [][/\ \A i \in 1..Len(pending) :
             (pending' = RemoveAt(pending, i) /\ geoRet'.op \in {"response", "failed"}
                 /\ pending[i].params # Current) => articles' = articles
       /\ pending' # <<>> => loading']_vars

(* ======================== useDebounce: properties ====================== *)
\* the options useDebounce takes when none are given, but for the delay
Default == hook # <<>> /\ ~hook[1].options.leading /\ hook[1].options.trailing
              /\ hook[1].options.maxWait = NoMaxWait

CallStep == dbRet'.op = "call" /\ log' # log
TimerStep == dbRet'.op = "timer" /\ timers' # timers

\* the timeout runs when the last call is at least delay ago: the burst is over
BurstEnd == TimerStep /\ dbNow - lastCallTimeRef >= hook[1].options.delay

\* the calls made so far, cancels left out
Calls(l) == SelectSeq(l, LAMBDA e : e # 0)

\* C27: with the default options a burst of one or more calls that is followed
\* by delay without a call and without cancel leads to exactly one invocation
\* of callback, made when the burst is over and never inside a call.
C27_OneInvocationPerBurst ==
    [][Default =>
          /\ CallStep => invoked' = invoked
          /\ BurstEnd => Len(invoked') = Len(invoked) + 1
          /\ ~BurstEnd => invoked' = invoked]_vars

\* C28: the invocation at the end of a burst receives the arguments of the
\* most recent call, and no call made before a cancel is invoked after it.
C28_LatestArguments ==
    [][(Default /\ Len(invoked') > Len(invoked)) =>
          /\ invoked'[Len(invoked')] = Len(Calls(log'))
          /\ \A k \in 1..Len(log') :
                log'[k] = 0 => invoked'[Len(invoked')] > Len(Calls(SubSeq(log', 1, k)))]_vars

\* C22: in useDebouncedGeoSearch a search that a newer search has superseded is
\* aborted, and when its result or error arrives it changes none of results,
\* error and loading, so that after all searches have settled results is the
\* outcome of the search started last.
C22_SupersededDiscarded ==
    [][\A i \in 1..Len(inflight) :
          (dbRet'.op = "settle" /\ inflight' = RemoveAt(inflight, i)
              /\ inflight[i].controller # abortControllerRef) =>
              /\ inflight[i].controller \in aborted
              /\ UNCHANGED <<searchResults, searchError, searchLoading>>]_vars

====
